---------------------------- MODULE Spec2Model ----------------------------
(***************************************************************************)
(* Rule based controllers of citylearn/agents/rbc.py:                      *)
(*   PITemperatureController  (PI loop with anti-windup, per-key state)    *)
(*   HourRBC                  (action-map normalisation, hour lookup)      *)
(*   BasicRBC, OptimizedRBC, BasicBatteryRBC,                              *)
(*   BasicElectricVehicleRBC_ReferenceController                           *)
(*                            (the schedule generators of HourRBC)         *)
(*                                                                         *)
(* Numbers are fixed point.  Temperatures and errors are counted in 1/TDen *)
(* degrees, the gains kp and ki in 1/KDen, min_power and max_power in      *)
(* 1/PDen, and every action value in 1/ActDen with ActDen = KDen*TDen*PDen,*)
(* so that min_power + pi_output * (max_power - min_power) is exact.       *)
(* Hours are counted in 1/HDen hours so that round() has halves to round.  *)
(* Device-action names are sequences of their "_"-separated tokens, which  *)
(* makes Python's substring test on names a computation (IsInfix).         *)
(***************************************************************************)
EXTENDS Integers, Sequences, FiniteSets, TLC

VARIABLES
    controller,         \* class of the controller object
    action_names,       \* Agent.action_names: per agent, sequence of names
    observation_names,  \* Agent.observation_names: per agent, sequence of names
    obs_domain,         \* values the environment may report, per agent and position
    params,             \* kp, ki, temp_deadband, integral_limit, min_power, max_power
    storage_action_map, \* PITemperatureController.storage_action_map
    integral_errors,    \* PITemperatureController.integral_errors
    raw_map,            \* the action_map argument handed to the constructor
    action_map,         \* HourRBC.__action_map (canonical)
    phase,              \* "new" | "ready" | "failed"
    actions,            \* Agent.actions: the last recorded batch
    time_step,          \* Agent.time_step
    returned,           \* number of predict calls that returned
    last,               \* what the last operation did
    run                 \* predict calls that returned, one after the other with
                        \* the same observations, since the controller was fresh
                        \* (0: fresh; -1: the calls since then were not such a run)

vars == <<controller, action_names, observation_names, obs_domain, params,
          storage_action_map, integral_errors, raw_map, action_map, phase,
          actions, time_step, returned, last, run>>

---------------------------------------------------------------------------
(* Scales of the fixed-point representation.                               *)
TDen == 1 + 1
KDen == 10 * 100
PDen == 2 * 5
HDen == 1 + 1
ActDen == KDen * TDen * PDen
(* the values of the generated schedules are counted in 1/TabDen           *)
TabDen == 10 * 10000

(* Bound of the model: predict calls that return, per behaviour.           *)
MaxCalls == 3

---------------------------------------------------------------------------
(* Python values.                                                          *)
None == [some |-> FALSE, v |-> 0]
Some(x) == [some |-> TRUE, v |-> x]

Abs(x) == IF x < 0 THEN -x ELSE x
Max(a, b) == IF b > a THEN b ELSE a
Min(a, b) == IF b < a THEN b ELSE a

EmptyDict == [k \in {} |-> 0]
Put(d, k, x) == [j \in (DOMAIN d) \cup {k} |-> IF j = k THEN x ELSE d[j]]

(* sub in name, for names and patterns made of whole tokens.               *)
IsInfix(sub, name) ==
    \E off \in 0..(Len(name) - Len(sub)) :
        \A j \in 1..Len(sub) : name[off + j] = sub[j]

(* Device-action names.                                                    *)
cooling_device == <<"cooling", "device">>
heating_device == <<"heating", "device">>
cooling_or_heating_device == <<"cooling", "or", "heating", "device">>
electrical_storage == <<"electrical", "storage">>
dhw_storage == <<"dhw", "storage">>
washing_machine == <<"washing", "machine">>
storage == <<"storage">>
cooling_storage == <<"cooling", "storage">>
electric_vehicle == <<"electric", "vehicle">>
electric_vehicle_storage == <<"electric", "vehicle", "storage">>

(* Observation names.                                                      *)
F_temp == "indoor_dry_bulb_temperature"
F_csp == "indoor_dry_bulb_temperature_cooling_set_point"
F_hsp == "indoor_dry_bulb_temperature_heating_set_point"
F_hour == "hour"

(* the value of the last position of n named name, as the loop over n      *)
(* leaves it; None when no position has the name.                          *)
LastNamed(n, o, name) ==
    LET idx == {i \in 1..Len(n) : n[i] = name}
    IN IF idx = {} THEN None
       ELSE Some(o[CHOOSE i \in idx : \A j \in idx : j <= i])

DefaultCoolingSetpoint == 24 * TDen
DefaultHeatingSetpoint == 20 * TDen

---------------------------------------------------------------------------
(* PITemperatureController                                                 *)

_get_integral_key(building_idx, device_type) == <<building_idx, device_type>>

(* mutant: the boundary of the deadband left outside it *)
InDeadbandStrict(error, p) == Abs(error) < p.temp_deadband

(* line 107 *)
InDeadband(error, p) == Abs(error) <= p.temp_deadband

(* mutant: the accumulator clamped from below only *)
AntiWindupNoUpper(x, p) == Max(x, -p.integral_limit)

(* lines 121-123 *)
AntiWindup(x, p) == Max(Min(x, p.integral_limit), -p.integral_limit)

(* mutant: the scaled output not clamped to the power band *)
ScalePowerUnclamped(pi_output, p) ==
    IF pi_output > 0
    THEN p.min_power * KDen * TDen + pi_output * (p.max_power - p.min_power)
    ELSE 0

(* lines 132-136. pi_output in 1/(KDen*TDen); the result in 1/ActDen.      *)
ScalePower(pi_output, p) ==
    IF pi_output > 0
    THEN LET action_value ==
                 p.min_power * KDen * TDen
                 + pi_output * (p.max_power - p.min_power)
         IN Max(Min(action_value, p.max_power * KDen * TDen),
                p.min_power * KDen * TDen)
    ELSE 0

(* mutant: the integral term alone *)
PiOutputIntegralOnly(error, acc, p) == p.ki * acc

(* lines 117-129 *)
PiOutput(error, acc, p) == p.kp * error + p.ki * acc

(* lines 92-138: returns the action and the integral state it leaves,     *)
(* with a record of the call.                                              *)
_calculate_pi_action(error, integral_key, ie, p) ==
    IF InDeadband(error, p)
    THEN [ret |-> 0, ie |-> Put(ie, integral_key, 0),
          call |-> [key |-> integral_key, error |-> error, deadband |-> TRUE,
                    before |-> IF integral_key \in DOMAIN ie
                               THEN Some(ie[integral_key]) ELSE None,
                    after |-> 0, u |-> 0, ret |-> 0]]
    ELSE LET ie1 == IF integral_key \in DOMAIN ie THEN ie
                    ELSE Put(ie, integral_key, 0)
             acc == AntiWindup(ie1[integral_key] + error, p)
             pi_output == PiOutput(error, acc, p)
             action_value == ScalePower(pi_output, p)
         IN [ret |-> action_value, ie |-> Put(ie1, integral_key, acc),
             call |-> [key |-> integral_key, error |-> error,
                       deadband |-> FALSE,
                       before |-> IF integral_key \in DOMAIN ie
                                  THEN Some(ie[integral_key]) ELSE None,
                       after |-> acc, u |-> pi_output, ret |-> action_value]]


(* dict.get(hour, default) with the raw (float) hour as the key: a float   *)
(* equals an int key only when it is whole.                                *)
GetHour(table, hour, default) ==
    IF hour % HDen = 0 /\ (hour \div HDen) \in DOMAIN table
    THEN table[hour \div HDen] ELSE default

NoMap == [shape |-> "none", flat |-> EmptyDict, dev |-> EmptyDict, list |-> <<>>]
FlatMap(t) == [shape |-> "dict", flat |-> t, dev |-> EmptyDict, list |-> <<>>]
DevMap(d) == [shape |-> "dict", flat |-> EmptyDict, dev |-> d, list |-> <<>>]
ListMap(l) == [shape |-> "list", flat |-> EmptyDict, dev |-> EmptyDict, list |-> l]

(* mutant: no default for a set point that is not observed *)
ReadObservationsNoDefault(n, o) ==
    [indoor_temp |-> LastNamed(n, o, F_temp),
     cooling_setpoint |-> LastNamed(n, o, F_csp),
     heating_setpoint |-> LastNamed(n, o, F_hsp),
     hour |-> LastNamed(n, o, F_hour)]

(* lines 161-181: the features one agent's predict reads.                  *)
ReadObservations(n, o) ==
    LET csp == LastNamed(n, o, F_csp)
        hsp == LastNamed(n, o, F_hsp)
    IN [indoor_temp |-> LastNamed(n, o, F_temp),
        cooling_setpoint |-> IF csp.some THEN csp ELSE Some(DefaultCoolingSetpoint),
        heating_setpoint |-> IF hsp.some THEN hsp ELSE Some(DefaultHeatingSetpoint),
        hour |-> LastNamed(n, o, F_hour)]

(* lines 185-191: action_value is assigned only when hour is present.      *)
ElectricalStorageValue(hour, av) ==
    IF hour.some
    THEN IF 6 * HDen <= hour.v /\ hour.v <= 14 * HDen
         THEN Some((11 * ActDen) \div 100)
         ELSE Some(-((67 * ActDen) \div 1000))
    ELSE av

(* lines 193-215 *)
StorageValue(action_name, hour, sam) ==
    IF sam.shape # "none"
    THEN IF sam.shape = "dict" /\ action_name \in DOMAIN sam.dev
         THEN IF hour.some THEN GetHour(sam.dev[action_name], hour.v, 0) ELSE 0
         ELSE 0
    ELSE IF hour.some
         THEN IF 9 * HDen <= hour.v /\ hour.v <= 21 * HDen
              THEN -((8 * ActDen) \div 100)
              ELSE IF (1 * HDen <= hour.v /\ hour.v <= 8 * HDen)
                      \/ (22 * HDen <= hour.v /\ hour.v <= 24 * HDen)
                   THEN (91 * ActDen) \div 1000
                   ELSE 0
         ELSE 0

(* the append of one value to actions_ (st.acts) with action_value bound.  *)
Emit(st, x, ie, calls) ==
    [st EXCEPT !.av = Some(x), !.acts = Append(@, x), !.ie = ie,
               !.log = @ \o calls]

(* mutant: the other role's accumulator left as it is *)
ResetOppositeSkipped(ie, key) == ie

(* lines 245-247 and 254-256: the other role's accumulator is cleared.     *)
ResetOpposite(ie, key) == Put(ie, key, 0)

(* lines 237-270 *)
CoolingOrHeating(st, building_idx, c, p) ==
    IF c.indoor_temp.some /\ c.cooling_setpoint.some /\ c.heating_setpoint.some
    THEN LET cooling_error == c.indoor_temp.v - c.cooling_setpoint.v
             heating_error == c.heating_setpoint.v - c.indoor_temp.v
             cool_key == _get_integral_key(building_idx, "cooling_or_heating_cool")
             heat_key == _get_integral_key(building_idx, "cooling_or_heating_heat")
         IN IF cooling_error > p.temp_deadband
            THEN LET r == _calculate_pi_action(cooling_error, cool_key,
                                               ResetOpposite(st.ie, heat_key), p)
                 IN Emit(st, -r.ret, r.ie, <<r.call>>)
            ELSE IF heating_error > p.temp_deadband
            THEN LET r == _calculate_pi_action(heating_error, heat_key,
                                               ResetOpposite(st.ie, cool_key), p)
                 IN Emit(st, r.ret, r.ie, <<r.call>>)
            ELSE Emit(st, 0, Put(Put(st.ie, cool_key, 0), heat_key, 0), <<>>)
    ELSE Emit(st, 0, st.ie, <<>>)

(* lines 217-225 *)
CoolingDevice(st, building_idx, c, p) ==
    IF c.indoor_temp.some /\ c.cooling_setpoint.some
    THEN LET r == _calculate_pi_action(c.indoor_temp.v - c.cooling_setpoint.v,
                      _get_integral_key(building_idx, "cooling"), st.ie, p)
         IN Emit(st, r.ret, r.ie, <<r.call>>)
    ELSE Emit(st, 0, st.ie, <<>>)

(* mutant: "or" for "and" in the guard; a missing temperature reads as 0   *)
HeatingDeviceOr(st, building_idx, c, p) ==
    IF c.indoor_temp.some \/ c.heating_setpoint.some
    THEN LET r == _calculate_pi_action(c.heating_setpoint.v - c.indoor_temp.v,
                      _get_integral_key(building_idx, "heating"), st.ie, p)
         IN Emit(st, r.ret, r.ie, <<r.call>>)
    ELSE Emit(st, 0, st.ie, <<>>)

(* lines 227-235 *)
HeatingDevice(st, building_idx, c, p) ==
    IF c.indoor_temp.some /\ c.heating_setpoint.some
    THEN LET r == _calculate_pi_action(c.heating_setpoint.v - c.indoor_temp.v,
                      _get_integral_key(building_idx, "heating"), st.ie, p)
         IN Emit(st, r.ret, r.ie, <<r.call>>)
    ELSE Emit(st, 0, st.ie, <<>>)

(* mutant: nothing appended for a name no branch knows *)
EmitUnknownNothing(st) == st

(* lines 272-274: 0.0 appended, action_value untouched.                    *)
EmitUnknown(st) == [st EXCEPT !.acts = Append(@, 0)]

(* lines 183-274: one iteration of the loop over an agent's action names.  *)
(* st.av is the local action_value, which outlives the iteration.          *)
DeviceStep(st, building_idx, action_name, c, p, sam) ==
    IF IsInfix(electrical_storage, action_name)
    THEN LET x == ElectricalStorageValue(c.hour, st.av)
         IN IF x.some
            THEN Emit(st, x.v, st.ie, <<>>)
            ELSE [st EXCEPT !.raised = "UnboundLocalError"]
    ELSE IF IsInfix(storage, action_name)
    THEN Emit(st, StorageValue(action_name, c.hour, sam), st.ie, <<>>)
    ELSE IF action_name = cooling_device
    THEN CoolingDevice(st, building_idx, c, p)
    ELSE IF action_name = heating_device
    THEN HeatingDevice(st, building_idx, c, p)
    ELSE IF action_name = cooling_or_heating_device
    THEN CoolingOrHeating(st, building_idx, c, p)
    ELSE EmitUnknown(st)

RECURSIVE DeviceLoop(_, _, _, _, _, _, _)
DeviceLoop(st, building_idx, a, j, c, p, sam) ==
    IF st.raised # "" \/ j > Len(a) THEN st
    ELSE DeviceLoop(DeviceStep(st, building_idx, a[j], c, p, sam),
                    building_idx, a, j + 1, c, p, sam)

(* lines 156-276: the loop over zip(action_names, observation_names,       *)
(* observations); building_idx counts from 0.                              *)
RECURSIVE BuildingLoop(_, _, _, _, _, _, _)
BuildingLoop(st, i, a_all, n_all, observations, p, sam) ==
    IF st.raised # "" \/ i > Min(Min(Len(a_all), Len(n_all)), Len(observations))
    THEN st
    ELSE LET c == ReadObservations(n_all[i], observations[i])
             s1 == DeviceLoop([st EXCEPT !.acts = <<>>], i - 1, a_all[i], 1,
                              c, p, sam)
         IN BuildingLoop([s1 EXCEPT !.batch = Append(@, s1.acts)],
                         i + 1, a_all, n_all, observations, p, sam)

PIPredictResult(ie, observations, a_all, n_all, p, sam) ==
    BuildingLoop([ie |-> ie, av |-> None, acts |-> <<>>, batch |-> <<>>,
                  log |-> <<>>, raised |-> ""],
                 1, a_all, n_all, observations, p, sam)

---------------------------------------------------------------------------
(* Agent substrate (citylearn/agents/base.py, outside the core).           *)

(* next_time_step(): advances the step counter by one.                     *)
NextTimeStep(t) == t + 1

RECURSIVE SeqProduct(_)
SeqProduct(doms) ==
    IF doms = <<>> THEN {<<>>}
    ELSE {Append(s, x) : s \in SeqProduct(SubSeq(doms, 1, Len(doms) - 1)),
                         x \in doms[Len(doms)]}

(* the observation batches the environment may hand to predict.            *)
ObservationBatches == SeqProduct([i \in 1..Len(obs_domain) |-> SeqProduct(obs_domain[i])])

NoError == [type |-> "", hour |-> None, action |-> <<>>, missing |-> {}, index |-> None]

Op(name, outcome, error, observations, batch, log) ==
    [op |-> name, outcome |-> outcome, error |-> error,
     observations |-> observations, batch |-> batch, log |-> log]

---------------------------------------------------------------------------
(* The environments and parameters the controllers are built over.         *)

Temps == {36, 39, 44, 49, 52, 56}
CoolingSetpoints == {44, 48}
HeatingSetpoints == {40, 56}
PIHours == {6, 12, 28, 29, 30}

DefaultParams ==
    [kp |-> 200, ki |-> 5, temp_deadband |-> 1, integral_limit |-> 20,
     min_power |-> 0, max_power |-> 10]

PIParams ==
    { DefaultParams,
      [DefaultParams EXCEPT !.ki = 50],
      [DefaultParams EXCEPT !.integral_limit = 0],
      [DefaultParams EXCEPT !.integral_limit = 4, !.min_power = 2, !.max_power = 6],
      [DefaultParams EXCEPT !.temp_deadband = 0, !.kp = 0, !.ki = 50] }

PIScenarios ==
    { [action_names |-> << <<cooling_device, heating_device>> >>,
       observation_names |-> << <<F_temp>> >>,
       obs_domain |-> << <<Temps>> >>],
      [action_names |-> << <<cooling_device>> >>,
       observation_names |-> << <<F_temp>> >>,
       obs_domain |-> << <<Temps \cup {46}>> >>],
      [action_names |-> << <<cooling_or_heating_device, electrical_storage>> >>,
       observation_names |-> << <<F_temp, F_hsp, F_hour>> >>,
       obs_domain |-> << <<Temps, HeatingSetpoints, {12, 30}>> >>],
      [action_names |-> << <<cooling_device, heating_device,
                             cooling_or_heating_device,
                             electrical_storage, washing_machine>> >>,
       observation_names |-> << <<F_hour, F_csp>> >>,
       obs_domain |-> << <<PIHours, CoolingSetpoints>> >>],
      [action_names |-> << <<cooling_device, electrical_storage, dhw_storage>> >>,
       observation_names |-> << <<F_temp>> >>,
       obs_domain |-> << <<Temps>> >>],
      [action_names |-> << <<electrical_storage, heating_device>> >>,
       observation_names |-> << <<F_temp>> >>,
       obs_domain |-> << <<Temps>> >>],
      [action_names |-> << <<cooling_device>>, <<heating_device, electrical_storage>> >>,
       observation_names |-> << <<F_temp, F_hour>>, <<F_temp>> >>,
       obs_domain |-> << <<{44, 52, 56}, {12, 30}>>, <<{36, 39, 44}>> >>],
      [action_names |-> << <<cooling_device>>, <<electrical_storage>> >>,
       observation_names |-> << <<F_temp>>, <<F_temp>> >>,
       obs_domain |-> << <<{44, 52, 56}>>, <<{44}>> >>],
      [action_names |-> << <<cooling_device, dhw_storage, cooling_device, electrical_storage>> >>,
       observation_names |-> << <<F_temp, F_hour, F_temp, F_hour>> >>,
       obs_domain |-> << <<{52}, {12}, {49, 52, 56}, PIHours>> >>] }

Table(keys, base) == [h \in keys |-> base + h]

StorageMaps ==
    { NoMap,
      DevMap([n \in {dhw_storage, electrical_storage} |-> Table(1..24, 100)]),
      FlatMap(Table(1..24, 100)),
      ListMap(<< [n \in {dhw_storage, electrical_storage} |-> Table(1..24, 100)] >>) }

(* the maps tried for a controller over the names a_all: a map matters     *)
(* only where some name takes the storage branch of lines 193-215.         *)
StorageMapsFor(a_all) ==
    IF \E i \in 1..Len(a_all) : \E j \in 1..Len(a_all[i]) :
          IsInfix(storage, a_all[i][j]) /\ ~IsInfix(electrical_storage, a_all[i][j])
    THEN StorageMaps
    ELSE {NoMap}

---------------------------------------------------------------------------
(* HourRBC                                                                 *)

(* list(set(n)): the distinct names of one agent.                          *)
NameSet(n) == {n[j] : j \in 1..Len(n)}

(* lines 391-395: the names of action_names the map m does not define.     *)
MissingActions(names, m) == {a \in names : a \notin DOMAIN m}

Failed(error) == [ok |-> FALSE, error |-> error, canonical |-> NoMap]
Accepted(canonical) == [ok |-> TRUE, error |-> NoError, canonical |-> canonical]

(* mutant: the elements of the list not verified *)
SetListUnverified(l, a_all) ==
    IF Len(l) # Len(a_all)
    THEN Failed([NoError EXCEPT !.type = "AssertionError: length"])
    ELSE Accepted(ListMap(l))

(* lines 318-323: the list shape. The first agent whose map lacks a name   *)
(* fails the assertion, with the names and the agent's index (from 0).     *)
SetList(l, a_all) ==
    IF Len(l) # Len(a_all)
    THEN Failed([NoError EXCEPT !.type = "AssertionError: length"])
    ELSE LET bad == {i \in 1..Len(l) : MissingActions(NameSet(a_all[i]), l[i]) # {}}
         IN IF bad = {} THEN Accepted(ListMap(l))
            ELSE LET i == CHOOSE k \in bad : \A j \in bad : k <= j
                 IN Failed([NoError EXCEPT
                        !.type = "AssertionError: undefined maps",
                        !.missing = MissingActions(NameSet(a_all[i]), l[i]),
                        !.index = Some(i - 1)])

(* mutant: every agent given the whole map *)
SetDeviceKeyedWhole(d, a_all) ==
    LET names == UNION {NameSet(a_all[i]) : i \in 1..Len(a_all)}
    IN IF MissingActions(names, d) # {}
       THEN Failed([NoError EXCEPT !.type = "AssertionError: undefined maps",
                                   !.missing = MissingActions(names, d)])
       ELSE Accepted(ListMap([i \in 1..Len(a_all) |-> d]))

(* lines 326-330: a dict whose first value is a dict (device-keyed).       *)
SetDeviceKeyed(d, a_all) ==
    LET names == UNION {NameSet(a_all[i]) : i \in 1..Len(a_all)}
    IN IF MissingActions(names, d) # {}
       THEN Failed([NoError EXCEPT !.type = "AssertionError: undefined maps",
                                   !.missing = MissingActions(names, d)])
       ELSE Accepted(ListMap([i \in 1..Len(a_all) |->
                        [n_ \in NameSet(a_all[i]) |-> d[n_]]]))

(* line 333: a dict whose first value is no dict (hour -> value).          *)
SetFlat(t, a_all) ==
    Accepted(ListMap([i \in 1..Len(a_all) |->
                        [n_ \in NameSet(a_all[i]) |-> t]]))

(* lines 316-338: the action_map setter. list(action_map.values())[0] of   *)
(* an empty dict raises IndexError.                                        *)
SetActionMap(raw, a_all) ==
    IF raw.shape = "list" THEN SetList(raw.list, a_all)
    ELSE IF raw.shape = "dict"
    THEN IF DOMAIN raw.dev = {} /\ DOMAIN raw.flat = {}
         THEN Failed([NoError EXCEPT !.type = "IndexError"])
         ELSE IF DOMAIN raw.dev # {}
         THEN SetDeviceKeyed(raw.dev, a_all)
         ELSE SetFlat(raw.flat, a_all)
    ELSE Accepted(NoMap)

(* n.index('hour'): the first position named hour, 0 when there is none.   *)
IndexOf(n, name) ==
    LET idx == {i \in 1..Len(n) : n[i] = name}
    IN IF idx = {} THEN 0 ELSE CHOOSE i \in idx : \A j \in idx : i <= j

(* int(round(x)) for x = h/HDen: to the nearest integer, a half to the     *)
(* even neighbour.                                                         *)
RoundHour(h) ==
    IF h % HDen = 0 THEN h \div HDen
    ELSE LET lo == h \div HDen
         IN IF lo % 2 = 0 THEN lo ELSE lo + 1

(* mutant: the observed hour alone, no second encoding *)
HourCandidatesNoWrap(hour) == <<hour>>

(* mutant: the 1..24 encoding tried before the 0..23 encoding *)
HourCandidatesSwapped(hour) ==
    LET c1 == hour
        c2 == ((hour - 1) % 24) + 1
        c3 == hour % 24
        l1 == <<c1>>
        l2 == IF c2 = c1 THEN l1 ELSE Append(l1, c2)
    IN IF c3 = c1 \/ c3 = c2 THEN l2 ELSE Append(l2, c3)

(* lines 366-370 *)
HourCandidates(hour) ==
    LET c1 == hour
        c2 == hour % 24
        c3 == ((hour - 1) % 24) + 1
        l1 == <<c1>>
        l2 == IF c2 = c1 THEN l1 ELSE Append(l1, c2)
    IN IF c3 = c1 \/ c3 = c2 THEN l2 ELSE Append(l2, c3)

(* lines 375-382: the first candidate the table defines; None for the      *)
(* for-else that raises KeyError.                                          *)
Resolve(hour_map, candidates) ==
    LET hits == {k \in 1..Len(candidates) : candidates[k] \in DOMAIN hour_map}
    IN IF hits = {} THEN None
       ELSE Some(hour_map[candidates[CHOOSE k \in hits : \A j \in hits : k <= j]])

RECURSIVE HourDeviceLoop(_, _, _, _, _, _)
HourDeviceLoop(st, m, a, j, hour_observation, candidates) ==
    IF st.raised # "" \/ j > Len(a) THEN st
    ELSE IF a[j] \notin DOMAIN m
    THEN [st EXCEPT !.raised = "KeyError: action", !.action = a[j]]
    ELSE LET x == Resolve(m[a[j]], candidates)
         IN HourDeviceLoop(
                IF x.some THEN [st EXCEPT !.acts = Append(@, x.v)]
                ELSE [st EXCEPT !.raised = "KeyError",
                                !.hour = Some(hour_observation),
                                !.action = a[j]],
                m, a, j + 1, hour_observation, candidates)

(* lines 362-384: the loop over zip(action_map, action_names,              *)
(* observation_names, observations).                                       *)
RECURSIVE HourAgentLoop(_, _, _, _, _, _)
HourAgentLoop(st, i, canonical, a_all, n_all, observations) ==
    IF st.raised # ""
       \/ i > Min(Min(Len(canonical), Len(a_all)), Min(Len(n_all), Len(observations)))
    THEN st
    ELSE IF IndexOf(n_all[i], F_hour) = 0
    THEN [st EXCEPT !.raised = "ValueError"]
    ELSE LET hour_observation == observations[i][IndexOf(n_all[i], F_hour)]
             s1 == HourDeviceLoop([st EXCEPT !.acts = <<>>], canonical[i],
                                  a_all[i], 1, hour_observation,
                                  HourCandidates(RoundHour(hour_observation)))
         IN HourAgentLoop([s1 EXCEPT !.batch = Append(@, s1.acts)],
                          i + 1, canonical, a_all, n_all, observations)

HourPredictResult(canonical, observations, a_all, n_all) ==
    HourAgentLoop([acts |-> <<>>, batch |-> <<>>, raised |-> "",
                   hour |-> None, action |-> <<>>],
                  1, canonical, a_all, n_all, observations)

---------------------------------------------------------------------------
(* PITemperatureController: operations                                     *)

(* lines 140-281 *)
PIPredict ==
    /\ controller = "PITemperatureController"
    /\ phase = "ready"
    /\ returned < MaxCalls
    /\ \E observations \in ObservationBatches :
        LET r == PIPredictResult(integral_errors, observations, action_names,
                                 observation_names, params, storage_action_map)
        IN /\ integral_errors' = r.ie
           /\ IF r.raised = ""
              THEN /\ actions' = r.batch
                   /\ time_step' = NextTimeStep(time_step)
                   /\ returned' = returned + 1
                   /\ last' = Op("predict", "ok", NoError, observations,
                                 r.batch, r.log)
                   /\ run' = IF run = 0 THEN 1
                             ELSE IF run > 0 /\ last.observations = observations
                             THEN run + 1 ELSE -1
              ELSE /\ UNCHANGED <<actions, time_step, returned>>
                   /\ last' = Op("predict", "raise",
                                 [NoError EXCEPT !.type = r.raised],
                                 observations, <<>>, r.log)
                   /\ run' = -1
    /\ UNCHANGED <<controller, action_names, observation_names, obs_domain,
                   params, storage_action_map, raw_map, action_map, phase>>

(* lines 83-86 *)
PIReset ==
    /\ controller = "PITemperatureController"
    /\ phase = "ready"
    /\ integral_errors' = EmptyDict
    /\ last' = Op("reset", "ok", NoError, <<>>, <<>>, <<>>)
    /\ run' = 0
    /\ UNCHANGED <<controller, action_names, observation_names, obs_domain,
                   params, storage_action_map, raw_map, action_map, phase,
                   actions, time_step, returned>>

(* lines 63-81 *)
PIInit ==
    /\ controller = "PITemperatureController"
    /\ \E sc \in PIScenarios :
        /\ action_names = sc.action_names
        /\ observation_names = sc.observation_names
        /\ obs_domain = sc.obs_domain
    /\ params \in PIParams
    /\ storage_action_map \in StorageMapsFor(action_names)
    /\ integral_errors = EmptyDict
    /\ raw_map = NoMap
    /\ action_map = NoMap
    /\ phase = "ready"
    /\ actions = <<>>
    /\ time_step = 0
    /\ returned = 0
    /\ last = Op("init", "ok", NoError, <<>>, <<>>, <<>>)
    /\ run = 0

(* Hour tables and the action maps a caller may hand to HourRBC.           *)
T1_24 == Table(1..24, 100)
T0_23 == Table(0..23, 200)
T5 == Table({5}, 300)
T0_24 == Table(0..24, 400)

(* every whole hour from -1 to 25, and the halves round() decides on.      *)
HourValues == {h * HDen : h \in -1..25} \cup {-1, 1, 3, 5, 47, 49}

HourScenarios ==
    { [action_names |-> << <<electrical_storage, cooling_device, electrical_storage>> >>,
       observation_names |-> << <<F_temp, F_hour, F_hour>> >>,
       obs_domain |-> << <<{44}, HourValues, {24}>> >>],
      [action_names |-> << <<cooling_device, electrical_storage>>,
                           <<electrical_storage, dhw_storage>> >>,
       observation_names |-> << <<F_hour>>, <<F_hour>> >>,
       obs_domain |-> << <<{-2, 0, 24, 48, 50, 96}>>, <<{10, 24}>> >>],
      [action_names |-> << <<electrical_storage>> >>,
       observation_names |-> << <<F_temp>> >>,
       obs_domain |-> << <<{44}>> >>] }

(* the device-keyed maps over the names S, each name with one of tables.   *)
DeviceMaps(S, tables) == UNION {[T -> tables] : T \in (SUBSET S) \ {{}}}

RawMaps(a_all) ==
    LET names == UNION {NameSet(a_all[i]) : i \in 1..Len(a_all)}
        elems == DeviceMaps(names, {T1_24}) \cup {[n \in names |-> T0_23]}
    IN {NoMap}
       \cup {FlatMap(t) : t \in {T1_24, T0_23, T5, T0_24, EmptyDict}}
       \cup {DevMap(d) : d \in DeviceMaps(names \cup {washing_machine},
                                          {T1_24, T0_23})}
       \cup {ListMap(l) : l \in UNION {[1..k -> elems] :
                                k \in {Len(a_all) - 1, Len(a_all), Len(a_all) + 1}}}

---------------------------------------------------------------------------
(* The schedule generators: the action_map setters of the subclasses of    *)
(* HourRBC, which build the map when none is given.                        *)

GeneratorClasses ==
    {"BasicRBC", "OptimizedRBC", "BasicBatteryRBC",
     "BasicElectricVehicleRBC_ReferenceController"}

(* Building.get_periodic_observation_metadata()['hour'] (citylearn/        *)
(* building.py, outside the core): the hours of a day, 1 to 24.            *)
MetadataHours == 1..24

Frac(num, den) == (num * TabDen) \div den

(* lines 462-473, and the same text at 571-582, 649-660, 730-741 *)
CombinedValue(hour) ==
    IF hour < 7 THEN Frac(4, 10)
    ELSE IF hour < 21 THEN -Frac(4, 10)
    ELSE Frac(8, 10)

(* mutant: the storage schedule with charge and discharge exchanged *)
BasicRBCValueSwapped(n, hour) ==
    IF IsInfix(storage, n)
    THEN Some(IF 9 <= hour /\ hour <= 21 THEN Frac(91, 1000)
              ELSE IF (1 <= hour /\ hour <= 8) \/ (22 <= hour /\ hour <= 24)
              THEN -Frac(8, 100) ELSE 0)
    ELSE IF n \in {cooling_device, heating_device} THEN Some(Frac(4, 10))
    ELSE IF n = cooling_or_heating_device THEN Some(CombinedValue(hour))
    ELSE None

(* lines 426-476: the value BasicRBC gives the name n at an hour; None for *)
(* the name that raises ValueError.                                        *)
BasicRBCValue(n, hour) ==
    LET day == 9 <= hour /\ hour <= 21
        night == (1 <= hour /\ hour <= 8) \/ (22 <= hour /\ hour <= 24)
    IN IF IsInfix(storage, n)
       THEN Some(IF day THEN -Frac(8, 100) ELSE IF night THEN Frac(91, 1000) ELSE 0)
       ELSE IF n = cooling_device
       THEN Some(IF day THEN Frac(8, 10) ELSE IF night THEN Frac(4, 10) ELSE 0)
       ELSE IF n = heating_device
       THEN Some(IF day THEN Frac(4, 10) ELSE IF night THEN Frac(8, 10) ELSE 0)
       ELSE IF n = cooling_or_heating_device
       THEN Some(CombinedValue(hour))
       ELSE None

(* the five bands of lines 522-533; v holds the values, the sixth for an   *)
(* hour in no band.                                                        *)
OptimizedBand(hour, v) ==
    IF 7 <= hour /\ hour <= 15 THEN v[1]
    ELSE IF 16 <= hour /\ hour <= 18 THEN v[2]
    ELSE IF 19 <= hour /\ hour <= 22 THEN v[3]
    ELSE IF 23 <= hour /\ hour <= 24 THEN v[4]
    ELSE IF 1 <= hour /\ hour <= 6 THEN v[5]
    ELSE v[6]

(* lines 517-585 *)
OptimizedRBCValue(n, hour) ==
    IF IsInfix(storage, n)
    THEN Some(OptimizedBand(hour, <<-Frac(2, 100), -Frac(44, 1000), -Frac(24, 1000),
                                    Frac(34, 1000), Frac(5532, 100000), 0>>))
    ELSE IF n = cooling_device
    THEN Some(OptimizedBand(hour, <<Frac(7, 10), Frac(6, 10), Frac(8, 10),
                                    Frac(4, 10), Frac(2, 10), 0>>))
    ELSE IF n = heating_device
    THEN Some(OptimizedBand(hour, <<Frac(3, 10), Frac(4, 10), Frac(6, 10),
                                    Frac(7, 10), Frac(8, 10), 0>>))
    ELSE IF n = cooling_or_heating_device
    THEN Some(CombinedValue(hour))
    ELSE None

(* lines 619-663 *)
BasicBatteryRBCValue(n, hour) ==
    LET sun == 6 <= hour /\ hour <= 14
    IN IF IsInfix(storage, n)
       THEN Some(IF sun THEN Frac(11, 100) ELSE -Frac(67, 1000))
       ELSE IF n = cooling_device
       THEN Some(IF sun THEN Frac(7, 10) ELSE Frac(3, 10))
       ELSE IF n = heating_device
       THEN Some(IF sun THEN Frac(3, 10) ELSE Frac(7, 10))
       ELSE IF n = cooling_or_heating_device
       THEN Some(CombinedValue(hour))
       ELSE None

(* lines 694-773: the storage schedule goes to the exact name              *)
(* electrical_storage.                                                     *)
ElectricVehicleReferenceValue(n, hour) ==
    LET day == 9 <= hour /\ hour <= 21
        night == (1 <= hour /\ hour <= 8) \/ (22 <= hour /\ hour <= 24)
    IN IF n = electrical_storage
       THEN Some(IF day THEN -Frac(8, 100) ELSE IF night THEN Frac(91, 1000) ELSE 0)
       ELSE IF n = cooling_device
       THEN Some(IF day THEN Frac(8, 10) ELSE IF night THEN Frac(4, 10) ELSE 0)
       ELSE IF n = heating_device
       THEN Some(IF day THEN Frac(4, 10) ELSE IF night THEN Frac(8, 10) ELSE 0)
       ELSE IF n = cooling_or_heating_device
       THEN Some(CombinedValue(hour))
       ELSE IF IsInfix(electric_vehicle, n)
       THEN Some(IF hour < 7 THEN Frac(4, 10)
                 ELSE IF hour < 10 THEN Frac(1, 1)
                 ELSE IF hour < 15 THEN -Frac(1, 1)
                 ELSE IF hour < 20 THEN -Frac(6, 10)
                 ELSE Frac(8, 10))
       ELSE IF IsInfix(dhw_storage, n) THEN Some(Frac(1, 1))
       ELSE IF IsInfix(washing_machine, n) THEN Some(Frac(1, 1))
       ELSE None

(* the setter that the class of the controller binds to action_map *)
GeneratedValue(class, n, hour) ==
    CASE class = "BasicRBC" -> BasicRBCValue(n, hour)
      [] class = "OptimizedRBC" -> OptimizedRBCValue(n, hour)
      [] class = "BasicBatteryRBC" -> BasicBatteryRBCValue(n, hour)
      [] class = "BasicElectricVehicleRBC_ReferenceController"
            -> ElectricVehicleReferenceValue(n, hour)

(* lines 421-478 (and 512-587, 614-665, 688-775): with no map given the    *)
(* subclass builds a device-keyed map over the set of all agents' names,   *)
(* raising ValueError at a name it does not know, and hands the map to     *)
(* HourRBC's setter; a given map goes to HourRBC's setter as it is.        *)
SetGeneratedActionMap(class, raw, a_all) ==
    IF raw.shape # "none" THEN SetActionMap(raw, a_all)
    ELSE LET names == UNION {NameSet(a_all[i]) : i \in 1..Len(a_all)}
             unknown == {n \in names :
                            \E hour \in MetadataHours :
                                ~GeneratedValue(class, n, hour).some}
         IN IF unknown # {}
            THEN Failed([NoError EXCEPT !.type = "ValueError",
                                        !.missing = unknown])
            ELSE SetActionMap(
                    DevMap([n \in names |->
                              [hour \in MetadataHours |->
                                  GeneratedValue(class, n, hour).v]]),
                    a_all)

(* the setter self.action_map = ... of line 310 resolves to *)
Setter(class, raw, a_all) ==
    IF class \in GeneratorClasses THEN SetGeneratedActionMap(class, raw, a_all)
    ELSE SetActionMap(raw, a_all)

(* the maps a caller hands to a controller of the class *)
RawMapsFor(class, a_all) ==
    IF class \in GeneratorClasses THEN {NoMap, FlatMap(T1_24)}
    ELSE RawMaps(a_all)

(* the values a random action may take: -1.0 and 1.0 *)
SampleValues == {-TabDen, TabDen}

(* super().predict(...) of line 357, the predict of citylearn.agents.base  *)
(* Agent: "The HourRBC will return random actions if no map is provided"   *)
(* (line 299). One value per action name of each agent.                    *)
AgentPredict(a_all) ==
    SeqProduct([i \in 1..Len(a_all) |->
                  SeqProduct([j \in 1..Len(a_all[i]) |-> SampleValues])])

GenHours == {0, 6, 17, 30, 44, 48}

GenScenarios ==
    { [action_names |-> << <<cooling_device, heating_device, electrical_storage>> >>,
       observation_names |-> << <<F_hour>> >>,
       obs_domain |-> << <<GenHours>> >>],
      [action_names |-> << <<cooling_or_heating_device, dhw_storage>>,
                           <<electrical_storage, cooling_storage>> >>,
       observation_names |-> << <<F_hour>>, <<F_hour>> >>,
       obs_domain |-> << <<GenHours>>, <<{6, 30}>> >>],
      [action_names |-> << <<washing_machine, electrical_storage>> >>,
       observation_names |-> << <<F_hour>> >>,
       obs_domain |-> << <<{6, 30}>> >>],
      [action_names |-> << <<electric_vehicle_storage, dhw_storage, cooling_device>> >>,
       observation_names |-> << <<F_hour>> >>,
       obs_domain |-> << <<{6, 30}>> >>] }

---------------------------------------------------------------------------
(* HourRBC and its subclasses: operations                                  *)

(* lines 308-310: the constructor sets the map; a failure leaves no        *)
(* controller.                                                             *)
HourRBCInit ==
    /\ controller \in {"HourRBC"} \cup GeneratorClasses
    /\ phase = "new"
    /\ \E raw \in RawMapsFor(controller, action_names) :
        LET r == Setter(controller, raw, action_names)
        IN /\ raw_map' = raw
           /\ action_map' = r.canonical
           /\ phase' = IF r.ok THEN "ready" ELSE "failed"
           /\ last' = Op("set_action_map", IF r.ok THEN "ok" ELSE "raise",
                         r.error, <<>>, <<>>, <<>>)
    /\ UNCHANGED <<controller, action_names, observation_names, obs_domain,
                   params, storage_action_map, integral_errors, actions,
                   time_step, returned, run>>

(* lines 340-389: with a map the actions are those of the loop, and lines  *)
(* 386-387 record them and advance the time step. With no map the call is  *)
(* the base class's predict (line 357), which picks the actions and, as    *)
(* every predict of the agent substrate, records them and advances the     *)
(* time step.                                                              *)
HourPredict ==
    /\ controller \in {"HourRBC"} \cup GeneratorClasses
    /\ phase = "ready"
    /\ returned < MaxCalls
    /\ \E observations \in ObservationBatches :
        IF action_map.shape = "none"
        THEN \E batch \in AgentPredict(action_names) :
                /\ actions' = batch
                /\ time_step' = NextTimeStep(time_step)
                /\ returned' = returned + 1
                /\ last' = Op("predict", "ok", NoError, observations, batch, <<>>)
        ELSE
        LET r == HourPredictResult(action_map.list, observations, action_names,
                                   observation_names)
        IN IF r.raised = ""
           THEN /\ actions' = r.batch
                /\ time_step' = NextTimeStep(time_step)
                /\ returned' = returned + 1
                /\ last' = Op("predict", "ok", NoError, observations,
                              r.batch, <<>>)
           ELSE /\ UNCHANGED <<actions, time_step, returned>>
                /\ last' = Op("predict", "raise",
                              [NoError EXCEPT !.type = r.raised,
                                              !.hour = r.hour,
                                              !.action = r.action],
                              observations, <<>>, <<>>)
    /\ UNCHANGED <<controller, action_names, observation_names, obs_domain,
                   params, storage_action_map, integral_errors, raw_map,
                   action_map, phase, run>>

(* the state before HourRBC.__init__ sets the map *)
HourInit ==
    /\ controller = "HourRBC"
    /\ \E sc \in HourScenarios :
        /\ action_names = sc.action_names
        /\ observation_names = sc.observation_names
        /\ obs_domain = sc.obs_domain
    /\ params = DefaultParams
    /\ storage_action_map = NoMap
    /\ integral_errors = EmptyDict
    /\ raw_map = NoMap
    /\ action_map = NoMap
    /\ phase = "new"
    /\ actions = <<>>
    /\ time_step = 0
    /\ returned = 0
    /\ last = Op("init", "ok", NoError, <<>>, <<>>, <<>>)
    /\ run = 0

(* the state before the constructor of a subclass of HourRBC sets the map *)
GenInit ==
    /\ controller \in GeneratorClasses
    /\ \E sc \in GenScenarios :
        /\ action_names = sc.action_names
        /\ observation_names = sc.observation_names
        /\ obs_domain = sc.obs_domain
    /\ params = DefaultParams
    /\ storage_action_map = NoMap
    /\ integral_errors = EmptyDict
    /\ raw_map = NoMap
    /\ action_map = NoMap
    /\ phase = "new"
    /\ actions = <<>>
    /\ time_step = 0
    /\ returned = 0
    /\ last = Op("init", "ok", NoError, <<>>, <<>>, <<>>)
    /\ run = 0

Init == PIInit \/ HourInit \/ GenInit

NextPI == PIPredict \/ PIReset

NextHour == HourRBCInit \/ HourPredict

Next == PIPredict \/ PIReset \/ HourRBCInit \/ HourPredict

(* both controllers, each behaviour being of one of them *)
Spec == Init /\ [][Next]_vars

SpecPI == PIInit /\ [][NextPI]_vars

SpecHour == HourInit /\ [][NextHour]_vars

(* HourRBC and the subclasses that generate their map *)
SpecFamily == (HourInit \/ GenInit) /\ [][NextHour]_vars

---------------------------------------------------------------------------
(* Properties                                                              *)

IsPI == controller = "PITemperatureController"
IsHour == controller = "HourRBC"
HasMap == action_map.shape # "none"
Predicted == last.op = "predict"
PredictReturned == last.op = "predict" /\ last.outcome = "ok"
Calls == {last.log[k] : k \in 1..Len(last.log)}
Agents == 1..Len(action_names)
Positions(i) == 1..Len(action_names[i])
HasFeature(i, name) == \E k \in 1..Len(observation_names[i]) : observation_names[i][k] = name

(* C1: with integral_limit >= 0, after any sequence of predict and reset   *)
(* calls every stored accumulator lies in                                  *)
(* [-integral_limit, +integral_limit].                                     *)
C1_IntegralWithinLimit ==
    (IsPI /\ params.integral_limit >= 0) =>
        \A k \in DOMAIN integral_errors :
            /\ -params.integral_limit <= integral_errors[k]
            /\ integral_errors[k] <= params.integral_limit

(* an accumulator that the clamp cut back to a positive limit *)
C1_Witness ==
    /\ IsPI /\ PredictReturned /\ params.integral_limit > 0
    /\ \E c \in Calls :
        /\ ~c.deadband /\ c.before.some
        /\ c.before.v + c.error > params.integral_limit
        /\ c.key \in DOMAIN integral_errors
        /\ integral_errors[c.key] = params.integral_limit

CoolKey(i) == <<i - 1, "cooling_or_heating_cool">>
HeatKey(i) == <<i - 1, "cooling_or_heating_heat">>
IsZero(k) == k \in DOMAIN integral_errors /\ integral_errors[k] = 0
CombinedPositions(i) == {j \in Positions(i) : action_names[i][j] = cooling_or_heating_device}
ObservedTemp(i) == LastNamed(observation_names[i], last.observations[i], F_temp).v
ObservedOr(i, name, default) ==
    LET x == LastNamed(observation_names[i], last.observations[i], name)
    IN IF x.some THEN x.v ELSE default

(* C2: after a predict call, for a cooling_or_heating_device: cooling      *)
(* active leaves the heat accumulator at 0 and the action <= 0; else       *)
(* heating active leaves the cool accumulator at 0 and the action >= 0;    *)
(* else the action is 0 and both accumulators are 0. At most one of the    *)
(* two accumulators of a building is ever nonzero.                         *)
C2_MutualExclusion ==
    IsPI =>
    /\ \A i \in Agents :
          ~(/\ CoolKey(i) \in DOMAIN integral_errors
            /\ HeatKey(i) \in DOMAIN integral_errors
            /\ integral_errors[CoolKey(i)] # 0
            /\ integral_errors[HeatKey(i)] # 0)
    /\ PredictReturned =>
        \A i \in Agents : \A j \in CombinedPositions(i) :
            HasFeature(i, F_temp) =>
              LET cooling_error == ObservedTemp(i) - ObservedOr(i, F_csp, 24 * TDen)
                  heating_error == ObservedOr(i, F_hsp, 20 * TDen) - ObservedTemp(i)
              IN IF cooling_error > params.temp_deadband
                 THEN IsZero(HeatKey(i)) /\ last.batch[i][j] <= 0
                 ELSE IF heating_error > params.temp_deadband
                 THEN IsZero(CoolKey(i)) /\ last.batch[i][j] >= 0
                 ELSE /\ last.batch[i][j] = 0
                      /\ IsZero(CoolKey(i)) /\ IsZero(HeatKey(i))

(* cooling took over from heating: the heat accumulator had a value and    *)
(* the call that cooled cleared it.                                        *)
C2_Witness ==
    /\ IsPI /\ PredictReturned
    /\ \E i \in Agents : \E j \in CombinedPositions(i) :
        /\ HasFeature(i, F_temp)
        /\ last.batch[i][j] < 0
        /\ IsZero(HeatKey(i))
        /\ integral_errors[CoolKey(i)] > 0
        /\ \E c \in Calls : c.key = CoolKey(i) /\ c.before.some /\ c.before.v = 0
        /\ returned >= 2

(* C3: for every accumulator history and every error with                 *)
(* abs(error) <= temp_deadband, boundary included, the PI computation      *)
(* returns 0 and leaves the accumulator at 0; a computation that starts    *)
(* from a cleared accumulator is the computation of a fresh one.           *)
C3_DeadbandClears ==
    (IsPI /\ Predicted) =>
        \A c \in Calls :
            /\ (Abs(c.error) <= params.temp_deadband) => (c.ret = 0 /\ c.after = 0)
            /\ (Abs(c.error) > params.temp_deadband /\ c.before.some /\ c.before.v = 0)
                 => c.after = Max(Min(c.error, params.integral_limit),
                                  -params.integral_limit)

(* an error on the boundary of the deadband met a nonzero accumulator *)
C3_Witness ==
    /\ IsPI /\ Predicted /\ params.temp_deadband > 0
    /\ \E c \in Calls :
        /\ Abs(c.error) = params.temp_deadband
        /\ c.before.some /\ c.before.v # 0
        /\ c.key \in DOMAIN integral_errors /\ integral_errors[c.key] = 0

PowerUnit == KDen * TDen

(* C4: for 0 <= min_power <= max_power every value the PI computation      *)
(* returns lies in [0, max_power]; outside the deadband it is 0 when       *)
(* u = kp*error + ki*accumulator <= 0 and otherwise                        *)
(* min_power + u*(max_power - min_power) clamped to [min_power, max_power].*)
C4_PowerBand ==
    (IsPI /\ Predicted /\ 0 <= params.min_power
          /\ params.min_power <= params.max_power) =>
        \A c \in Calls :
            LET u == params.kp * c.error + params.ki * c.after
                scaled == params.min_power * PowerUnit
                          + u * (params.max_power - params.min_power)
            IN /\ 0 <= c.ret /\ c.ret <= params.max_power * PowerUnit
               /\ Abs(c.error) > params.temp_deadband =>
                    IF u <= 0 THEN c.ret = 0
                    ELSE /\ params.min_power * PowerUnit <= c.ret
                         /\ c.ret = IF scaled > params.max_power * PowerUnit
                                    THEN params.max_power * PowerUnit
                                    ELSE IF scaled < params.min_power * PowerUnit
                                    THEN params.min_power * PowerUnit
                                    ELSE scaled

(* the scaled output was cut back to max_power *)
C4_Witness ==
    /\ IsPI /\ Predicted
    /\ \E c \in Calls :
        LET u == params.kp * c.error + params.ki * c.after
        IN /\ u > 0
           /\ params.min_power * PowerUnit + u * (params.max_power - params.min_power)
                > params.max_power * PowerUnit
           /\ c.ret = params.max_power * PowerUnit


NamesOf(i) == {action_names[i][j] : j \in Positions(i)}
BadList ==
    /\ raw_map.shape = "list"
    /\ \/ Len(raw_map.list) # Len(action_names)
       \/ \E i \in Agents : i <= Len(raw_map.list)
              /\ \E a \in NamesOf(i) : a \notin DOMAIN raw_map.list[i]
BadDeviceKeyed ==
    /\ raw_map.shape = "dict"
    /\ DOMAIN raw_map.flat = {}
    /\ \E i \in Agents : \E a \in NamesOf(i) : a \notin DOMAIN raw_map.dev

(* C5: a list of the wrong length, a list with an element that lacks a     *)
(* name of its agent, or a device-keyed mapping that lacks a name of some  *)
(* agent fails when the constructor sets the map (for a list of the right  *)
(* length, with the missing names and the agent's index), and no predict   *)
(* call runs with such a map.                                              *)
C5_BadMapRejected ==
    (IsHour /\ phase # "new") =>
    /\ (BadList \/ BadDeviceKeyed) =>
          /\ phase = "failed"
          /\ last.op = "set_action_map" /\ last.outcome = "raise"
          /\ last.error.type # ""
    /\ (BadList /\ Len(raw_map.list) = Len(action_names)) =>
          /\ last.error.index.some
          /\ last.error.index.v + 1 \in Agents
          /\ last.error.missing # {}
          /\ last.error.missing =
                {a \in NamesOf(last.error.index.v + 1) :
                    a \notin DOMAIN raw_map.list[last.error.index.v + 1]}
    /\ Predicted => ~(BadList \/ BadDeviceKeyed)

(* the second agent's element lacks a name while the first one's is whole  *)
C5_Witness ==
    /\ IsHour /\ phase = "failed"
    /\ raw_map.shape = "list" /\ Len(raw_map.list) = Len(action_names)
    /\ last.error.index = Some(1)
    /\ last.error.missing = {dhw_storage}

HourObs(i) == last.observations[i][IndexOf(observation_names[i], F_hour)]
CandidateSet(h) == {h, h % 24, ((h - 1) % 24) + 1}
TableOf(i, j) == action_map.list[i][action_names[i][j]]
FullDay(t) == DOMAIN t = 1..24 \/ DOMAIN t = 0..23
Unresolved(i, j) == CandidateSet(RoundHour(HourObs(i))) \cap DOMAIN TableOf(i, j) = {}

(* C6: with tables keyed exactly 1..24 or exactly 0..23, predict resolves  *)
(* a value for every raw hour in -1..25; with a table that holds no        *)
(* candidate key of the observed hour it raises KeyError naming the hour   *)
(* and the device-action.                                                  *)
C6_HourResolution ==
    (IsHour /\ HasMap /\ Predicted /\ \A i \in Agents : HasFeature(i, F_hour)) =>
    /\ (\A i \in Agents : \A j \in Positions(i) : FullDay(TableOf(i, j))) =>
          /\ last.outcome = "ok"
          /\ \A i \in Agents : \A j \in Positions(i) :
                \E k \in DOMAIN TableOf(i, j) : last.batch[i][j] = TableOf(i, j)[k]
    /\ (\E i \in Agents : \E j \in Positions(i) : Unresolved(i, j)) =>
          /\ last.outcome = "raise"
          /\ last.error.type = "KeyError"
          /\ \E i \in Agents : \E j \in Positions(i) :
                /\ Unresolved(i, j)
                /\ last.error.hour = Some(HourObs(i))
                /\ last.error.action = action_names[i][j]

(* hour 24 against a table keyed 0..23 resolves to the entry of key 0 *)
C6_Witness ==
    /\ IsHour /\ PredictReturned
    /\ raw_map = FlatMap(T0_23)
    /\ HourObs(1) = 24 * HDen
    /\ last.batch[1][1] = T0_23[0]

C7_Inv ==
    /\ time_step = returned
    /\ PredictReturned =>
        /\ actions = last.batch
        /\ Len(last.batch) = Len(action_names)
        /\ \A i \in Agents :
            /\ Len(last.batch[i]) = Len(action_names[i])
            /\ \A j \in Positions(i) :
                /\ (IsHour /\ HasMap) => last.batch[i][j] \in
                       {TableOf(i, j)[k] : k \in DOMAIN TableOf(i, j)}
                /\ (IsPI /\ action_names[i][j] = washing_machine) =>
                       last.batch[i][j] = 0
                /\ (IsPI /\ action_names[i][j] = electrical_storage
                         /\ HasFeature(i, F_hour)) =>
                       last.batch[i][j] \in {(11 * ActDen) \div 100,
                                             -((67 * ActDen) \div 1000)}

C7_Step ==
    /\ (last'.op = "predict" /\ last'.outcome = "ok") =>
          /\ time_step' = time_step + 1
          /\ returned' = returned + 1
          /\ actions' = last'.batch
    /\ (last'.op = "predict" /\ last'.outcome = "raise") =>
          /\ time_step' = time_step
          /\ returned' = returned
          /\ actions' = actions
    /\ last'.op # "predict" => time_step' = time_step

(* C7: a predict call that returns has produced one action per entry of    *)
(* each agent's action names, in order, recorded the batch in actions and  *)
(* advanced the time step once; a call that raises records nothing and     *)
(* does not advance; the advances equal the calls that returned.           *)
C7_PredictCommits == [](C7_Inv) /\ [][C7_Step]_vars

(* a call raised after two calls had returned *)
C7_Witness ==
    /\ Predicted /\ last.outcome = "raise"
    /\ returned = 2 /\ time_step = 2
    /\ actions # <<>>

Broadcast(t) ==
    /\ action_map.shape = "list"
    /\ Len(action_map.list) = Len(action_names)
    /\ \A i \in Agents :
        /\ DOMAIN action_map.list[i] = NamesOf(i)
        /\ \A a \in NamesOf(i) : action_map.list[i][a] = t
Selected(d) ==
    /\ action_map.shape = "list"
    /\ Len(action_map.list) = Len(action_names)
    /\ \A i \in Agents :
        /\ DOMAIN action_map.list[i] = NamesOf(i)
        /\ \A a \in NamesOf(i) : action_map.list[i][a] = d[a]

(* C8 as stated: every flat hour->value map yields the canonical list that *)
(* maps every name of every agent to that table, and an accepted           *)
(* device-keyed map the list in which agent i maps its own names, each to  *)
(* the table given for the name.                                           *)
C8_Original ==
    (IsHour /\ phase # "new" /\ raw_map.shape = "dict") =>
    /\ DOMAIN raw_map.dev = {} => (phase = "ready" /\ Broadcast(raw_map.flat))
    /\ (DOMAIN raw_map.dev # {} /\ phase = "ready") => Selected(raw_map.dev)

(* C8, amended: the same for every flat map that is not empty.             *)
C8_Normalization ==
    (IsHour /\ phase # "new" /\ raw_map.shape = "dict") =>
    /\ DOMAIN raw_map.flat # {} => (phase = "ready" /\ Broadcast(raw_map.flat))
    /\ (DOMAIN raw_map.dev # {} /\ phase = "ready") => Selected(raw_map.dev)

(* two agents share electrical_storage, the tables differ by device, and   *)
(* the map names a device no agent has                                     *)
C8_Witness ==
    /\ IsHour /\ phase = "ready" /\ Len(action_names) = 2
    /\ raw_map.shape = "dict"
    /\ DOMAIN raw_map.dev = {cooling_device, electrical_storage, dhw_storage,
                             washing_machine}
    /\ raw_map.dev[cooling_device] # raw_map.dev[electrical_storage]
    /\ action_map.list[1][electrical_storage] = action_map.list[2][electrical_storage]

Thermal == {cooling_device, heating_device, cooling_or_heating_device}
LacksInput(i, a) ==
    \/ ~HasFeature(i, F_temp)
    \/ a \in {cooling_device, cooling_or_heating_device} /\ ~HasFeature(i, F_csp)
    \/ a \in {heating_device, cooling_or_heating_device} /\ ~HasFeature(i, F_hsp)

(* C9 as stated: a thermal device whose agent lacks the indoor temperature *)
(* or the set point the device needs is given the action 0.               *)
C9_Original ==
    (IsPI /\ PredictReturned) =>
        \A i \in Agents : \A j \in Positions(i) :
            (action_names[i][j] \in Thermal /\ LacksInput(i, action_names[i][j]))
                => last.batch[i][j] = 0

(* C9, amended: a thermal device whose agent lacks the indoor temperature  *)
(* is given the action 0 and its branch raises nothing (a predict call     *)
(* raises only for an electrical_storage action of an agent without the    *)
(* hour); a lacking set point is replaced by its default, 24.0 for         *)
(* cooling and 20.0 for heating, and the PI action for it is emitted.      *)
C9_MissingFeatures ==
    (IsPI /\ Predicted) =>
    /\ last.outcome = "ok" =>
        \A i \in Agents : \A j \in Positions(i) :
            /\ (action_names[i][j] \in Thermal /\ ~HasFeature(i, F_temp))
                  => last.batch[i][j] = 0
            /\ (action_names[i][j] = cooling_device /\ HasFeature(i, F_temp)
                    /\ ~HasFeature(i, F_csp))
                  => \E c \in Calls :
                        /\ c.key = <<i - 1, "cooling">>
                        /\ c.error = ObservedTemp(i) - 24 * TDen
                        /\ c.ret = last.batch[i][j]
            /\ (action_names[i][j] = heating_device /\ HasFeature(i, F_temp)
                    /\ ~HasFeature(i, F_hsp))
                  => \E c \in Calls :
                        /\ c.key = <<i - 1, "heating">>
                        /\ c.error = 20 * TDen - ObservedTemp(i)
                        /\ c.ret = last.batch[i][j]
            /\ (action_names[i][j] = cooling_or_heating_device
                    /\ HasFeature(i, F_temp) /\ ~HasFeature(i, F_csp)
                    /\ ObservedTemp(i) - 24 * TDen > params.temp_deadband)
                  => \E c \in Calls :
                        /\ c.key = CoolKey(i)
                        /\ c.error = ObservedTemp(i) - 24 * TDen
                        /\ last.batch[i][j] = -c.ret
    /\ last.outcome = "raise" =>
        /\ last.error.type = "UnboundLocalError"
        /\ \E i \in Agents : \E j \in Positions(i) :
              ~HasFeature(i, F_hour) /\ IsInfix(electrical_storage, action_names[i][j])

(* an agent without the indoor temperature: its three thermal devices are  *)
(* given 0 and no accumulator is made                                      *)
C9_Witness ==
    /\ IsPI /\ PredictReturned
    /\ integral_errors = EmptyDict
    /\ \E i \in Agents :
        /\ ~HasFeature(i, F_temp)
        /\ Thermal \subseteq NamesOf(i)
        /\ \A j \in Positions(i) :
              action_names[i][j] \in Thermal => last.batch[i][j] = 0

(* C10 as stated: every action whose name contains electrical_storage is   *)
(* +0.11 when the observed hour is in 6..14 and -0.067 in every other      *)
(* case, for every observation vector.                                     *)
C10_Original ==
    (IsPI /\ PredictReturned) =>
        \A i \in Agents : \A j \in Positions(i) :
            IsInfix(electrical_storage, action_names[i][j]) =>
                LET hour == LastNamed(observation_names[i], last.observations[i], F_hour)
                IN last.batch[i][j] =
                      IF hour.some /\ 6 * HDen <= hour.v /\ hour.v <= 14 * HDen
                      THEN (11 * ActDen) \div 100
                      ELSE -((67 * ActDen) \div 1000)

(* C13: with the cooling (heating) set point not observed, the error of a  *)
(* cooling_device (heating_device) is formed against 24.0 (20.0); for one  *)
(* building with the one device cooling_device, the default parameters and *)
(* indoor temperature 26.0, the first predict of a fresh controller        *)
(* computes the error 2.0, returns 0.41 and leaves the cooling accumulator *)
(* at 2.0.                                                                 *)
C13_DefaultSetpoint ==
    (IsPI /\ Predicted) =>
    /\ \A i \in Agents : \A c \in Calls :
          /\ (c.key = <<i - 1, "cooling">> /\ ~HasFeature(i, F_csp))
                => c.error = ObservedTemp(i) - 24 * TDen
          /\ (c.key = <<i - 1, "heating">> /\ ~HasFeature(i, F_hsp))
                => c.error = 20 * TDen - ObservedTemp(i)
    /\ (/\ action_names = << <<cooling_device>> >>
        /\ params = DefaultParams
        /\ returned = 1 /\ last.outcome = "ok"
        /\ ObservedTemp(1) = 26 * TDen)
          => /\ Len(last.log) = 1
             /\ last.log[1].error = 2 * TDen
             /\ last.batch = << <<(41 * ActDen) \div 100>> >>
             /\ integral_errors = Put(EmptyDict, <<0, "cooling">>, 2 * TDen)

(* the first call of the one-device controller at 26.0 returned 0.41 *)
C13_Witness ==
    /\ IsPI /\ PredictReturned /\ returned = 1
    /\ action_names = << <<cooling_device>> >>
    /\ params = DefaultParams
    /\ ObservedTemp(1) = 26 * TDen
    /\ last.batch[1][1] = (41 * ActDen) \div 100
    /\ integral_errors[<<0, "cooling">>] = 2 * TDen

(* the value the probe order h, h mod 24, ((h - 1) mod 24) + 1 finds in t  *)
FirstPresent(t, h) ==
    IF h \in DOMAIN t THEN t[h]
    ELSE IF h % 24 \in DOMAIN t THEN t[h % 24]
    ELSE t[((h - 1) % 24) + 1]

(* C16: for the raw hour rounded to h, a predict call that returns emits   *)
(* for every device the table's value at the first of h, h mod 24,         *)
(* ((h - 1) mod 24) + 1 that the table defines; with a table that defines  *)
(* both 0 and 24, hour 24 yields table[24] and hour 0 yields table[0].     *)
C16_ProbeOrder ==
    (IsHour /\ HasMap /\ PredictReturned) =>
        \A i \in Agents : \A j \in Positions(i) :
            LET h == RoundHour(HourObs(i))
                t == TableOf(i, j)
            IN /\ last.batch[i][j] = FirstPresent(t, h)
               /\ ({0, 24} \subseteq DOMAIN t /\ h = 24) => last.batch[i][j] = t[24]
               /\ ({0, 24} \subseteq DOMAIN t /\ h = 0) => last.batch[i][j] = t[0]

(* hour 48 against a table with both 0 and 24: the key 48 is absent, the   *)
(* second candidate 0 and the third candidate 24 are both present, and the *)
(* value of key 0 is emitted                                               *)
C16_Witness ==
    /\ IsHour /\ PredictReturned
    /\ raw_map = FlatMap(T0_24)
    /\ RoundHour(HourObs(1)) = 48
    /\ last.batch[1][1] = T0_24[0]
    /\ T0_24[0] # T0_24[24]

Feature(i, observations, name, default) ==
    LET x == LastNamed(observation_names[i], observations[i], name)
    IN IF x.some THEN x.v ELSE default
Clamp(e) == Max(Min(e, params.integral_limit), -params.integral_limit)

C17_Step ==
    (IsPI /\ integral_errors = EmptyDict
          /\ last'.op = "predict" /\ last'.outcome = "ok") =>
        \A i \in Agents : \A j \in Positions(i) :
            HasFeature(i, F_temp) =>
                LET temp == Feature(i, last'.observations, F_temp, 0)
                    cooling_error == temp - Feature(i, last'.observations, F_csp, 24 * TDen)
                    heating_error == Feature(i, last'.observations, F_hsp, 20 * TDen) - temp
                    a == action_names[i][j]
                    Holds(k, e) == /\ k \in DOMAIN integral_errors'
                                   /\ integral_errors'[k] = Clamp(e)
                IN /\ (a = cooling_device /\ Abs(cooling_error) > params.temp_deadband)
                        => Holds(<<i - 1, "cooling">>, cooling_error)
                   /\ (a = heating_device /\ Abs(heating_error) > params.temp_deadband)
                        => Holds(<<i - 1, "heating">>, heating_error)
                   /\ (a = cooling_or_heating_device
                            /\ cooling_error > params.temp_deadband)
                        => Holds(CoolKey(i), cooling_error)
                   /\ (a = cooling_or_heating_device
                            /\ cooling_error <= params.temp_deadband
                            /\ heating_error > params.temp_deadband)
                        => Holds(HeatKey(i), heating_error)

(* C17 as stated: one predict call from a fresh controller leaves the      *)
(* accumulator of every active thermal device at                           *)
(* clamp(e, -integral_limit, integral_limit) for the device's              *)
(* out-of-deadband error e, also when an agent's action names hold the     *)
(* same thermal device name more than once.                                *)
C17_Original == [][C17_Step]_vars

C18_Step ==
    (IsPI /\ last'.op = "predict" /\ last'.outcome = "ok") =>
        \A i \in Agents :
            \A other \in {b \in ObservationBatches : b[i] = last'.observations[i]} :
                LET r == PIPredictResult(integral_errors, other, action_names,
                                         observation_names, params,
                                         storage_action_map)
                IN r.raised = "" => r.batch[i] = last'.batch[i]

(* C18 as stated: the actions predict produces for one agent depend on     *)
(* that agent's own observations and accumulators only: the same call      *)
(* from the same controller state with other observations for the other    *)
(* agents yields the same value for each of the agent's devices.           *)
C18_Original == [][C18_Step]_vars

(* no call of the PI computation with an error <= 0 returned a nonzero     *)
(* value, and no standalone device at the wrong side of its set point was  *)
(* driven                                                                  *)
NeverDrivenAgainstError ==
    /\ \A c \in Calls : c.error <= 0 => c.ret = 0
    /\ last.outcome = "ok" =>
        \A i \in Agents : \A j \in Positions(i) :
            HasFeature(i, F_temp) =>
              /\ (action_names[i][j] = cooling_device
                    /\ ObservedTemp(i) <= ObservedOr(i, F_csp, 24 * TDen))
                   => last.batch[i][j] = 0
              /\ (action_names[i][j] = heating_device
                    /\ ObservedTemp(i) >= ObservedOr(i, F_hsp, 20 * TDen))
                   => last.batch[i][j] = 0

(* C19 as stated: for all gains kp >= 0 and ki >= 0 and every reachable    *)
(* accumulator, the PI computation returns 0 for an error <= 0: a          *)
(* standalone cooling_device is not driven at or below the cooling set     *)
(* point and a heating_device not at or above the heating set point.       *)
C19_Original ==
    (IsPI /\ Predicted /\ params.kp >= 0 /\ params.ki >= 0)
        => NeverDrivenAgainstError

(* C19, amended: the same for gains with                                   *)
(* ki * integral_limit <= kp * temp_deadband, where the integral term      *)
(* cannot outweigh the proportional term of an error beyond the deadband.  *)
C19_NoDriveAgainstError ==
    (IsPI /\ Predicted /\ params.kp >= 0 /\ params.ki >= 0
          /\ params.integral_limit >= 0
          /\ params.ki * params.integral_limit
                <= params.kp * params.temp_deadband)
        => NeverDrivenAgainstError

(* a cooling device below its set point, beyond the deadband, with a       *)
(* positive accumulator left by earlier calls: not driven                  *)
C19_Witness ==
    /\ IsPI /\ PredictReturned
    /\ params.ki > 0
    /\ params.ki * params.integral_limit <= params.kp * params.temp_deadband
    /\ \E i \in Agents : \E j \in Positions(i) :
        /\ action_names[i][j] = cooling_device
        /\ HasFeature(i, F_temp)
        /\ ObservedTemp(i) < ObservedOr(i, F_csp, 24 * TDen) - params.temp_deadband
        /\ last.batch[i][j] = 0
        /\ \E c \in Calls :
            /\ c.key = <<i - 1, "cooling">>
            /\ c.before.some /\ c.before.v > 0 /\ c.after > 0
            /\ c.error < 0 /\ c.ret = 0

(* after run calls with the same observations from a fresh controller, the *)
(* accumulator of every device with an error e beyond the deadband is      *)
(* clamp(run * e)                                                          *)
C12_Inv ==
    (IsPI /\ run >= 1 /\ params.integral_limit >= 0) =>
        \A i \in Agents : \A j \in Positions(i) :
            HasFeature(i, F_temp) =>
                LET cooling_error == ObservedTemp(i) - ObservedOr(i, F_csp, 24 * TDen)
                    heating_error == ObservedOr(i, F_hsp, 20 * TDen) - ObservedTemp(i)
                    a == action_names[i][j]
                    Holds(k, e) == /\ k \in DOMAIN integral_errors
                                   /\ integral_errors[k] = Clamp(run * e)
                IN /\ (a = cooling_device /\ Abs(cooling_error) > params.temp_deadband)
                        => Holds(<<i - 1, "cooling">>, cooling_error)
                   /\ (a = heating_device /\ Abs(heating_error) > params.temp_deadband)
                        => Holds(<<i - 1, "heating">>, heating_error)
                   /\ (a = cooling_or_heating_device
                            /\ cooling_error > params.temp_deadband)
                        => Holds(CoolKey(i), cooling_error)
                   /\ (a = cooling_or_heating_device
                            /\ cooling_error <= params.temp_deadband
                            /\ heating_error > params.temp_deadband)
                        => Holds(HeatKey(i), heating_error)

(* the next call of such a run returns, for every PI computation, no less  *)
(* than the call before                                                    *)
C12_Step ==
    (IsPI /\ run >= 1 /\ run' = run + 1) =>
        /\ Len(last'.log) = Len(last.log)
        /\ \A k \in 1..Len(last.log) :
              /\ last'.log[k].key = last.log[k].key
              /\ last'.log[k].error = last.log[k].error
              /\ last'.log[k].ret >= last.log[k].ret

(* C12 as stated: from a fresh or just reset controller, n consecutive     *)
(* predict calls that feed one thermal device the constant error e,        *)
(* abs(e) > temp_deadband, leave the device's accumulator at               *)
(* clamp(n*e, -integral_limit, integral_limit), and the values the PI      *)
(* computation returns do not decrease from one call to the next.          *)
C12_Original == [](C12_Inv) /\ [][C12_Step]_vars

NoRepeatedName ==
    \A i \in Agents : \A j1, j2 \in Positions(i) :
        action_names[i][j1] = action_names[i][j2] => j1 = j2

(* C12 where no agent's action names hold a name twice: it holds there.    *)
C12_WithoutRepeats == [](NoRepeatedName => C12_Inv) /\ [][C12_Step]_vars

StoragePositions(i) ==
    {j \in Positions(i) : /\ IsInfix(storage, action_names[i][j])
                          /\ ~IsInfix(electrical_storage, action_names[i][j])}
ObservedHour(i) == LastNamed(observation_names[i], last.observations[i], F_hour).v
(* the table a storage_action_map in one of the HourRBC formats holds for  *)
(* agent i's device a                                                      *)
StorageTable(i, a) ==
    IF storage_action_map.shape = "list" THEN storage_action_map.list[i][a]
    ELSE IF DOMAIN storage_action_map.dev # {} THEN storage_action_map.dev[a]
    ELSE storage_action_map.flat

(* C15 as stated: with a storage_action_map in one of the HourRBC formats  *)
(* (flat, device-keyed, per-agent list) the action of every storage        *)
(* device other than electrical storage is the map's value for the device  *)
(* at the observed hour; with no map it is -0.08 for the hours 9..21 and   *)
(* 0.091 for the hours 1..8 and 22..24.                                    *)
C15_Original ==
    (IsPI /\ PredictReturned) =>
        \A i \in Agents : \A j \in StoragePositions(i) :
            HasFeature(i, F_hour) =>
                LET h == ObservedHour(i)
                IN IF storage_action_map.shape = "none"
                   THEN /\ (9 * HDen <= h /\ h <= 21 * HDen)
                            => last.batch[i][j] = -((8 * ActDen) \div 100)
                        /\ ((1 * HDen <= h /\ h <= 8 * HDen)
                              \/ (22 * HDen <= h /\ h <= 24 * HDen))
                            => last.batch[i][j] = (91 * ActDen) \div 1000
                   ELSE (h % HDen = 0 /\ h \div HDen
                            \in DOMAIN StorageTable(i, action_names[i][j]))
                            => last.batch[i][j]
                                 = StorageTable(i, action_names[i][j])[h \div HDen]

(* the default storage bands: -0.08 for the hours 9..21, 0.091 for the     *)
(* hours 1..8 and 22..24                                                   *)
DefaultBandsAt(i, j) ==
    LET h == RoundHour(HourObs(i))
    IN /\ (9 <= h /\ h <= 21) => last.batch[i][j] = -((8 * TabDen) \div 100)
       /\ ((1 <= h /\ h <= 8) \/ (22 <= h /\ h <= 24))
            => last.batch[i][j] = (91 * TabDen) \div 1000
AllStoragePositions(i) == {j \in Positions(i) : IsInfix(storage, action_names[i][j])}

(* C11 as stated: an HourRBC constructed with no action map returns, for   *)
(* a storage device, the default band value of the observed hour: -0.08    *)
(* for hour 15 and 0.091 for hour 3.                                       *)
C11_Original ==
    (controller = "HourRBC" /\ raw_map = NoMap /\ PredictReturned) =>
        \A i \in Agents : \A j \in AllStoragePositions(i) :
            HasFeature(i, F_hour) => DefaultBandsAt(i, j)

(* C11, amended: a BasicRBC constructed with no action map returns, for    *)
(* a storage device, the default band value of the observed hour: -0.08    *)
(* for hour 15 (band 9..21) and 0.091 for hour 3 (band 1..8 and 22..24).   *)
(* An HourRBC with no map keeps no map and returns what the base class's   *)
(* predict returns.                                                        *)
C11_DefaultBands ==
    /\ (controller = "BasicRBC" /\ raw_map = NoMap /\ PredictReturned) =>
          /\ HasMap
          /\ \A i \in Agents : \A j \in AllStoragePositions(i) :
                HasFeature(i, F_hour) => DefaultBandsAt(i, j)
    /\ (controller = "HourRBC" /\ raw_map = NoMap /\ phase = "ready") =>
          /\ ~HasMap
          /\ PredictReturned => last.batch \in AgentPredict(action_names)

(* a BasicRBC without a given map returned -0.08 for a storage device at   *)
(* hour 15                                                                 *)
C11_Witness ==
    /\ controller = "BasicRBC" /\ raw_map = NoMap /\ PredictReturned
    /\ \E i \in Agents : \E j \in AllStoragePositions(i) :
        /\ HasFeature(i, F_hour)
        /\ HourObs(i) = 15 * HDen
        /\ last.batch[i][j] = -((8 * TabDen) \div 100)

IsGenerator == controller \in GeneratorClasses
AllNames == UNION {NamesOf(i) : i \in Agents}
EVReference == "BasicElectricVehicleRBC_ReferenceController"
(* the patterns a generator recognizes: the substring storage and the      *)
(* three exact names, and for the electric vehicle reference also the      *)
(* substrings electric_vehicle and washing_machine                         *)
Recognized(n) ==
    \/ IsInfix(storage, n)
    \/ n \in Thermal
    \/ /\ controller = EVReference
       /\ (IsInfix(electric_vehicle, n) \/ IsInfix(washing_machine, n))
(* the charge/discharge table of the controller's generator: the one it    *)
(* gives electrical_storage                                                *)
StorageSchedule ==
    [hour \in MetadataHours |-> GeneratedValue(controller, electrical_storage, hour).v]
AvailabilityTable(t, low) ==
    /\ DOMAIN t = MetadataHours
    /\ \A hour \in MetadataHours : low <= t[hour] /\ t[hour] <= TabDen

C14_Dispatch ==
    (IsGenerator /\ raw_map = NoMap /\ phase # "new") =>
        IF \A n \in AllNames : Recognized(n)
        THEN /\ phase = "ready" /\ HasMap
             /\ \A i \in Agents : \A n \in NamesOf(i) :
                  /\ n \in DOMAIN action_map.list[i]
                  /\ DOMAIN action_map.list[i][n] = MetadataHours
                  /\ IsInfix(storage, n) => action_map.list[i][n] = StorageSchedule
                  /\ n \in {cooling_device, heating_device}
                        => AvailabilityTable(action_map.list[i][n], 0)
                  /\ n = cooling_or_heating_device
                        => AvailabilityTable(action_map.list[i][n], -TabDen)
        ELSE /\ phase = "failed"
             /\ last.outcome = "raise" /\ last.error.type = "ValueError"

(* C14 as stated: each of the four generators, constructed with no map,    *)
(* gives every name that contains storage its charge/discharge hour-band   *)
(* table and the names cooling_device, heating_device and                  *)
(* cooling_or_heating_device their availability tables, leaves no name     *)
(* without a table, and fails with ValueError at a name that matches no    *)
(* recognized pattern.                                                     *)
C14_Original == C14_Dispatch

(* C14 for BasicRBC, OptimizedRBC and BasicBatteryRBC: it holds there.     *)
C14_ThreeGenerators == controller # EVReference => C14_Dispatch

============================================================================
